---- MODULE Spec2Model ----
(***************************************************************************)
(* A model of WorkspaceRegistry (clients/workspace_registry.py): the       *)
(* registry of Linear clients, one per configured workspace, with the      *)
(* team-key -> workspace cache and the probing resolution.                 *)
(*                                                                         *)
(* Strings are sequences of one-character strings, so that str.upper and   *)
(* the regular expression of resolve_client_for_issue are computed on      *)
(* characters.  Python dicts are modelled with their insertion order where *)
(* the code iterates them (_workspaces) and as functions where it only     *)
(* looks keys up (_clients, _team_cache).                                  *)
(*                                                                         *)
(* Spec and SpecUnique run the registry's calls one after another, each to *)
(* completion.  SpecSettings builds the registry from Settings             *)
(* (config/settings.py).  SpecAsync runs the coroutines interleaved at     *)
(* their awaits.                                                           *)
(***************************************************************************)
EXTENDS Integers, Sequences, FiniteSets, Bags, TLC

VARIABLES
    workspaces,   \* self._workspaces: ordered name -> api key mapping
    clients,      \* self._clients: workspace name -> client object id
    team_cache,   \* self._team_cache: upper-cased team key -> workspace name
    objects,      \* every LinearClient constructed so far, by object id
    teams,        \* the remote side: workspace name -> team keys it holds
    last,         \* the call, or coroutine, that ended last: operation, outcome,
                  \* remote calls
    settings,     \* the Settings the registry was built from, if it was
    tasks         \* the coroutines in flight, a bag: where each is suspended

vars == <<workspaces, clients, team_cache, objects, teams, last, settings, tasks>>

----------------------------------------------------------------------------
(* Bounds *)

\* Coroutines of the registry in flight at once.
MaxTasks == 2

\* Longest team key handed to resolve_client_for_team.
MaxKeyLen == 1

\* Longest identifier handed to resolve_client_for_issue.
MaxIdentLen == 4

\* LinearClient objects constructed in one behaviour (close_all followed by
\* get_client constructs fresh ones without end).
MaxClients == 2

----------------------------------------------------------------------------
(* Strings *)

Str(S, n) == UNION {[1..k -> S] : k \in 0..n}

LowerLetters == {"a", "b"}
UpperLetters == {"A", "B"}
Digits == {"1"}

\* [A-Za-z], over the letters of the model's alphabet.
IsLetter(c) == c \in LowerLetters \cup UpperLetters

\* \d, over the digits of the model's alphabet.
IsDigit(c) == c \in Digits

UpperChar(c) ==
    CASE c = "a" -> "A"
      [] c = "b" -> "B"
      [] OTHER -> c

\* str.upper()
Upper(s) == [i \in 1..Len(s) |-> UpperChar(s[i])]

\* The configurations a registry is constructed from (name, api key), in the
\* order of the mapping.
Configs ==
    { << [name |-> "ios", api_key |-> "lin_api_ios"],
         [name |-> "backend", api_key |-> "lin_api_backend"] >>,
      << [name |-> "default", api_key |-> "lin_api_single"] >> }

\* Team keys that exist on the remote side (upper case, as Linear keeps them).
TeamKeyPool == { <<"A">>, <<"B">> }

\* Team keys callers pass to resolve_client_for_team.
KeyInputs == {team_key : team_key \in Str({"a", "A", "B"}, MaxKeyLen) \ {<<>>}}

\* Identifiers callers may pass to resolve_client_for_issue.
IdentChars == {"a", "-", "1", " ", "\n"}
IdentInputs == {identifier : identifier \in Str(IdentChars, MaxIdentLen)}

----------------------------------------------------------------------------
(* The registry *)

\* list(self._workspaces.keys())
workspace_names == [i \in 1..Len(workspaces) |-> workspaces[i].name]

WorkspaceKeys == {workspaces[i].name : i \in 1..Len(workspaces)}

\* self._workspaces[workspace_name]
ApiKeyOf(workspace_name) ==
    workspaces[CHOOSE i \in 1..Len(workspaces) :
                   workspaces[i].name = workspace_name].api_key

NoClient == 0

\* The registry's mutable fields, as one value.
Reg == [clients |-> clients, team_cache |-> team_cache, objects |-> objects]

\* d[k] = v on a dict held as a function.
Put(d, k, v) == [x \in DOMAIN d \cup {k} |-> IF x = k THEN v ELSE d[x]]

\* Mutant: every client is built with the first workspace's api key.
LinearClientOfFirst(api_key) == [api_key |-> workspaces[1].api_key, closed |-> 0]

\* LinearClient(api_key=...): a fresh object, not closed.
LinearClient(api_key) == [api_key |-> api_key, closed |-> 0]

\* Mutant: the message lists the workspaces that have a client, not the
\* configured ones.
UnknownWorkspaceListsHeld(reg, workspace_name) ==
    [kind |-> "KeyError", value |-> NoClient, reg |-> reg,
     message |-> [workspace |-> workspace_name,
                  available |-> SelectSeq(workspace_names,
                                          LAMBDA w : w \in DOMAIN reg.clients)]]

\* raise KeyError(f"Workspace '{workspace_name}' not configured. Available: ...")
UnknownWorkspace(reg, workspace_name) ==
    [kind |-> "KeyError", value |-> NoClient, reg |-> reg,
     message |-> [workspace |-> workspace_name, available |-> workspace_names]]

\* Mutant: a client is constructed on every call, held or not.
get_clientAlwaysConstructs(reg, workspace_name) ==
    IF workspace_name \notin WorkspaceKeys
    THEN UnknownWorkspace(reg, workspace_name)
    ELSE LET id == Len(reg.objects) + 1
         IN [kind |-> "client", value |-> id,
             reg |-> [reg EXCEPT
                        !.objects = Append(@, LinearClient(ApiKeyOf(workspace_name))),
                        !.clients = Put(@, workspace_name, id)],
             message |-> <<>>]

get_client(reg, workspace_name) ==
    IF workspace_name \notin WorkspaceKeys
    THEN UnknownWorkspace(reg, workspace_name)
    ELSE IF workspace_name \notin DOMAIN reg.clients
    THEN LET id == Len(reg.objects) + 1
         IN [kind |-> "client", value |-> id,
             reg |-> [reg EXCEPT
                        !.objects = Append(@, LinearClient(ApiKeyOf(workspace_name))),
                        !.clients = Put(@, workspace_name, id)],
             message |-> <<>>]
    ELSE [kind |-> "client", value |-> reg.clients[workspace_name], reg |-> reg,
          message |-> <<>>]

----------------------------------------------------------------------------
(* The remote side *)

\* client.get_team_by_key(key) on the client of workspace ws_name; err is the
\* set of workspaces whose remote call raises LinearClientError this time.
get_team_by_key(ws_name, key, err) ==
    IF ws_name \in err THEN "error"
    ELSE IF key \in teams[ws_name] THEN "team"
    ELSE "none"

\* client.list_teams() on the client of workspace ws_name.
list_teams(ws_name, err) ==
    IF ws_name \in err THEN "error" ELSE "ok"

\* Team(id, name, key) as the remote side returns it.
Team(ws_name, key) == [id |-> <<ws_name, key>>, name |-> key, key |-> key]

----------------------------------------------------------------------------
(* resolve_client_for_team *)

\* One record per get_team_by_key call of a resolution.
Call(ws_name, key, answer) == [ws |-> ws_name, key |-> key, answer |-> answer]

\* Mutant: recording an entry drops every other entry.
TeamCachePutOnly(cache, team_key_upper, ws_name) == [k \in {team_key_upper} |-> ws_name]

\* Mutant: the entry is never recorded.
TeamCachePutForgotten(cache, team_key_upper, ws_name) == cache

TeamCachePut(cache, team_key_upper, ws_name) == Put(cache, team_key_upper, ws_name)

\* Mutant: the cache is never consulted.
TeamCacheNeverHit(cache, team_key, team_key_upper) == FALSE

\* Mutant: the cache is looked up with the key as passed, not upper-cased.
TeamCacheHasRaw(cache, team_key, team_key_upper) == team_key \in DOMAIN cache

TeamCacheHas(cache, team_key, team_key_upper) == team_key_upper \in DOMAIN cache

\* Mutant: the failed search is remembered, as an entry for the first workspace.
TeamNotFoundCached(team_key, reg, calls) ==
    [kind |-> "TeamNotFoundError", value |-> NoClient,
     reg |-> [reg EXCEPT !.team_cache = Put(@, Upper(team_key), workspaces[1].name)],
     calls |-> calls,
     message |-> [team |-> team_key, searched |-> workspace_names]]

\* Mutant: the message lists only the workspaces that answered.
TeamNotFoundListsAnswered(team_key, reg, calls) ==
    LET answered == {i \in 1..Len(calls) : calls[i].answer = "none"}
        Pick[S \in SUBSET (1..Len(calls))] ==
            IF S = {} THEN <<>>
            ELSE LET m == CHOOSE x \in S : \A y \in S : x <= y
                 IN <<calls[m].ws>> \o Pick[S \ {m}]
    IN [kind |-> "TeamNotFoundError", value |-> NoClient, reg |-> reg, calls |-> calls,
        message |-> [team |-> team_key, searched |-> Pick[answered]]]

TeamNotFound(team_key, reg, calls) ==
    [kind |-> "TeamNotFoundError", value |-> NoClient, reg |-> reg, calls |-> calls,
     message |-> [team |-> team_key, searched |-> workspace_names]]

\* Mutant: whatever the lookup returned counts as a team.
FoundAnything(team) == TRUE

\* `if team:` on what get_team_by_key returned.
Found(team) == team = "team"

\* Mutant: the lookup's error is not caught.
CatchesNothing(team) == FALSE

\* `except LinearClientError: continue` around the lookup.
Catches(team) == team = "error"

\* The loop over self._workspaces, from the i-th workspace on.
RECURSIVE Probe(_, _, _, _, _, _)
Probe(i, reg, team_key, team_key_upper, err, calls) ==
    IF i > Len(workspaces) THEN TeamNotFound(team_key, reg, calls)
    ELSE LET ws_name == workspaces[i].name
             g == get_client(reg, ws_name)
             team == get_team_by_key(ws_name, team_key_upper, err)
             called == Append(calls, Call(ws_name, team_key_upper, team))
         IN IF team = "error" /\ ~Catches(team)
            THEN [kind |-> "LinearClientError", value |-> NoClient, reg |-> g.reg,
                  calls |-> called, message |-> <<>>]
            ELSE IF team # "error" /\ Found(team)
            THEN [kind |-> "client", value |-> g.value,
                  reg |-> [g.reg EXCEPT
                             !.team_cache = TeamCachePut(@, team_key_upper, ws_name)],
                  calls |-> called, message |-> <<>>]
            ELSE Probe(i + 1, g.reg, team_key, team_key_upper, err, called)

resolve_client_for_team(reg, team_key, err) ==
    LET team_key_upper == Upper(team_key) IN
    IF TeamCacheHas(reg.team_cache, team_key, team_key_upper)
    THEN LET g == get_client(reg, reg.team_cache[team_key_upper])
         IN [kind |-> g.kind, value |-> g.value, reg |-> g.reg, calls |-> <<>>,
             message |-> g.message]
    ELSE Probe(1, reg, team_key, team_key_upper, err, <<>>)

----------------------------------------------------------------------------
(* resolve_client_for_issue *)

NoMatch == [matched |-> FALSE, group1 |-> <<>>]

\* [A-Za-z]+ from position i: the length of the longest run of letters.
RECURSIVE LetterRun(_, _)
LetterRun(s, i) ==
    IF i <= Len(s) /\ IsLetter(s[i]) THEN 1 + LetterRun(s, i + 1) ELSE 0

\* \d+ from position i: the length of the longest run of digits.
RECURSIVE DigitRun(_, _)
DigitRun(s, i) ==
    IF i <= Len(s) /\ IsDigit(s[i]) THEN 1 + DigitRun(s, i + 1) ELSE 0

\* $ without re.MULTILINE: at the end of the string, or just before a newline
\* that ends the string.
AtEnd(s, i) == i = Len(s) + 1 \/ (i = Len(s) /\ s[i] = "\n")

\* Mutant: the first group takes the dash with the letters.
ReMatchGroupWithDash(identifier) ==
    LET n == LetterRun(identifier, 1)
        d == DigitRun(identifier, n + 2)
    IN IF /\ n >= 1
          /\ n + 1 <= Len(identifier)
          /\ identifier[n + 1] = "-"
          /\ d >= 1
          /\ AtEnd(identifier, n + 2 + d)
       THEN [matched |-> TRUE, group1 |-> SubSeq(identifier, 1, n + 1)]
       ELSE [matched |-> FALSE, group1 |-> <<>>]

\* re.match(r"^([A-Za-z]+)-(\d+)$", identifier): the first group, or no match.
\* Neither run can give characters back: what follows each is outside its class.
ReMatch(identifier) ==
    LET n == LetterRun(identifier, 1)
        d == DigitRun(identifier, n + 2)
    IN IF /\ n >= 1
          /\ n + 1 <= Len(identifier)
          /\ identifier[n + 1] = "-"
          /\ d >= 1
          /\ AtEnd(identifier, n + 2 + d)
       THEN [matched |-> TRUE, group1 |-> SubSeq(identifier, 1, n)]
       ELSE NoMatch

\* The identifiers of IdentInputs the pattern accepts, and those it rejects.
MatchingIdents == {identifier \in IdentInputs : ReMatch(identifier).matched}
RejectedIdents == IdentInputs \ MatchingIdents

\* The identifiers the calls of a behaviour pass: all the pattern accepts, and
\* one it rejects (the rejected ones differ in the error message alone).
IssueInputs == MatchingIdents \cup {CHOOSE identifier \in RejectedIdents : TRUE}

resolve_client_for_issue(reg, identifier, err) ==
    LET match == ReMatch(identifier) IN
    IF ~match.matched
    THEN [kind |-> "ValueError", value |-> NoClient, reg |-> reg, calls |-> <<>>,
          message |-> [identifier |-> identifier]]
    ELSE resolve_client_for_team(reg, match.group1, err)

----------------------------------------------------------------------------
(* list_all_workspaces_with_teams *)

\* Mutant: an entry, once written, is not overwritten by a later listing.
CacheTeamsKeepsOld(cache, ws_name, keys) ==
    [k \in DOMAIN cache \cup {Upper(key) : key \in keys} |->
        IF k \in DOMAIN cache THEN cache[k] ELSE ws_name]

\* Mutant: the teams are cached under the first configured workspace.
CacheTeamsUnderFirst(cache, ws_name, keys) ==
    [k \in DOMAIN cache \cup {Upper(key) : key \in keys} |->
        IF k \in {Upper(key) : key \in keys} THEN workspaces[1].name ELSE cache[k]]

\* Mutant: the teams are cached to the workspace's api key, not its name.
CacheTeamsToApiKey(cache, ws_name, keys) ==
    [k \in DOMAIN cache \cup {Upper(key) : key \in keys} |->
        IF k \in {Upper(key) : key \in keys} THEN ApiKeyOf(ws_name) ELSE cache[k]]

\* The inner loop over the teams a workspace returned:
\* self._team_cache[team.key.upper()] = ws_name for each of them.
CacheTeams(cache, ws_name, keys) ==
    [k \in DOMAIN cache \cup {Upper(key) : key \in keys} |->
        IF k \in {Upper(key) : key \in keys} THEN ws_name ELSE cache[k]]

\* Mutant: the first workspace whose list_teams raises ends the listing.
RECURSIVE ListFromStopsAtFailure(_, _, _, _)
ListFromStopsAtFailure(i, reg, err, result) ==
    IF i > Len(workspaces)
    THEN [kind |-> "result", value |-> result, reg |-> reg]
    ELSE LET ws_name == workspaces[i].name
             g == get_client(reg, ws_name)
         IN IF list_teams(ws_name, err) = "ok"
            THEN ListFromStopsAtFailure(
                     i + 1,
                     [g.reg EXCEPT
                        !.team_cache = CacheTeams(@, ws_name, teams[ws_name])],
                     err,
                     Append(result,
                            [workspace |-> ws_name, error |-> FALSE,
                             teams |-> {Team(ws_name, k) : k \in teams[ws_name]}]))
            ELSE [kind |-> "result",
                  value |-> Append(result,
                                   [workspace |-> ws_name, error |-> TRUE,
                                    teams |-> {}]),
                  reg |-> g.reg]

\* The loop over self._workspaces, from the i-th workspace on; an entry of the
\* result carries error |-> TRUE where the code adds the "error" key.
RECURSIVE ListFrom(_, _, _, _)
ListFrom(i, reg, err, result) ==
    IF i > Len(workspaces)
    THEN [kind |-> "result", value |-> result, reg |-> reg]
    ELSE LET ws_name == workspaces[i].name
             g == get_client(reg, ws_name)
         IN IF list_teams(ws_name, err) = "ok"
            THEN ListFrom(i + 1,
                          [g.reg EXCEPT
                             !.team_cache = CacheTeams(@, ws_name, teams[ws_name])],
                          err,
                          Append(result,
                                 [workspace |-> ws_name, error |-> FALSE,
                                  teams |-> {Team(ws_name, k) : k \in teams[ws_name]}]))
            ELSE ListFrom(i + 1, g.reg, err,
                          Append(result,
                                 [workspace |-> ws_name, error |-> TRUE, teams |-> {}]))

list_all_workspaces_with_teams(reg, err) == ListFrom(1, reg, err, <<>>)

----------------------------------------------------------------------------
(* close_all *)

\* Mutant: every client ever constructed is closed, held or not.
close_allEveryObject(reg) ==
    [reg EXCEPT
        !.objects = [id \in DOMAIN reg.objects |->
                        [reg.objects[id] EXCEPT !.closed = @ + 1]],
        !.clients = <<>>]

\* Mutant: the team cache is cleared with the client set.
close_allClearsCache(reg) ==
    LET held == {reg.clients[w] : w \in DOMAIN reg.clients} IN
    [reg EXCEPT
        !.objects = [id \in DOMAIN reg.objects |->
                        IF id \in held
                        THEN [reg.objects[id] EXCEPT !.closed = @ + 1]
                        ELSE reg.objects[id]],
        !.clients = <<>>,
        !.team_cache = <<>>]

\* client.close() on every client of self._clients, then self._clients.clear().
close_all(reg) ==
    LET held == {reg.clients[w] : w \in DOMAIN reg.clients} IN
    [reg EXCEPT
        !.objects = [id \in DOMAIN reg.objects |->
                        IF id \in held
                        THEN [reg.objects[id] EXCEPT !.closed = @ + 1]
                        ELSE reg.objects[id]],
        !.clients = <<>>]

----------------------------------------------------------------------------
(* Settings *)

\* An Optional field is the set of its values: {} is None, {v} is v.
None == {}

\* `not self.linear_api_key`: None or the empty string.
TruthyStr(field) == field # None /\ field # {""}

\* `not self.linear_workspaces`: None or the empty dict.
TruthyDict(field) == field # None /\ field # {<<>>}

\* The value of a field that is not None.
ValueOf(field) == CHOOSE v \in field : TRUE

\* Values of LINEAR_API_KEY.
ApiKeyInputs == {None, {""}, {"lin_api_single"}}

\* Values of LINEAR_WORKSPACES, after parsing.
WorkspacesInputs ==
    {None, {<<>>},
     {<< [name |-> "ios", api_key |-> "lin_api_ios"],
         [name |-> "backend", api_key |-> "lin_api_backend"] >>},
     {<< [name |-> "ws1", api_key |-> "lin_api_ws1"] >>}}

NoSettings == [kind |-> "none"]

\* Settings(...): the fields, once validate_linear_config has let them pass.
Settings(linear_api_key, linear_workspaces) ==
    IF ~TruthyStr(linear_api_key) /\ ~TruthyDict(linear_workspaces)
    THEN [kind |-> "ValidationError"]
    ELSE [kind |-> "Settings", linear_api_key |-> linear_api_key,
          linear_workspaces |-> linear_workspaces]

\* Mutant: the single api key wins over the workspaces.
resolved_workspacesPrefersKey(self) ==
    IF TruthyStr(self.linear_api_key)
    THEN << [name |-> "default", api_key |-> ValueOf(self.linear_api_key)] >>
    ELSE ValueOf(self.linear_workspaces)

\* Settings.resolved_workspaces
resolved_workspaces(self) ==
    IF TruthyDict(self.linear_workspaces)
    THEN ValueOf(self.linear_workspaces)
    ELSE << [name |-> "default", api_key |-> ValueOf(self.linear_api_key)] >>

----------------------------------------------------------------------------
(* The state machine *)

Init ==
    /\ workspaces \in Configs
    /\ clients = <<>>
    /\ team_cache = <<>>
    /\ objects = <<>>
    /\ teams \in [ {workspaces[i].name : i \in 1..Len(workspaces)} -> SUBSET TeamKeyPool ]
    /\ last = [op |-> "init", kind |-> "none", calls |-> <<>>]
    /\ settings = NoSettings
    /\ tasks = EmptyBag

\* The registry after a call, and what the call did.
Apply(op, r, calls) ==
    /\ Len(r.reg.objects) <= MaxClients
    /\ clients' = r.reg.clients
    /\ objects' = r.reg.objects
    /\ team_cache' = r.reg.team_cache
    /\ last' = [op |-> op, kind |-> r.kind,
                calls |-> [i \in 1..Len(calls) |-> calls[i].answer]]
    /\ UNCHANGED <<workspaces, teams, settings, tasks>>

GetClient ==
    \E workspace_name \in WorkspaceKeys \cup {"unknown"} :
        Apply("get_client", get_client(Reg, workspace_name), <<>>)

ResolveClientForTeam ==
    \E team_key \in KeyInputs, err \in SUBSET WorkspaceKeys :
        LET r == resolve_client_for_team(Reg, team_key, err)
        IN Apply("resolve_client_for_team", r, r.calls)

ResolveClientForIssue ==
    \E identifier \in IssueInputs, err \in SUBSET WorkspaceKeys :
        LET r == resolve_client_for_issue(Reg, identifier, err)
        IN Apply("resolve_client_for_issue", r, r.calls)

ListAllWorkspacesWithTeams ==
    \E err \in SUBSET WorkspaceKeys :
        LET r == list_all_workspaces_with_teams(Reg, err)
        IN Apply("list_all_workspaces_with_teams",
                 [kind |-> "result", value |-> NoClient, reg |-> r.reg],
                 [i \in 1..Len(r.value) |->
                    Call(r.value[i].workspace, <<>>,
                         IF r.value[i].error THEN "error" ELSE "ok")])

CloseAll ==
    Apply("close_all",
          [kind |-> "none", value |-> NoClient, reg |-> close_all(Reg)], <<>>)

\* The remote side gains or loses a team (a team key is created, deleted, or,
\* by both, moved to another workspace).
RemoteTeamCreated ==
    \E w \in WorkspaceKeys, k \in TeamKeyPool :
        /\ k \notin teams[w]
        /\ teams' = [teams EXCEPT ![w] = @ \cup {k}]
        /\ UNCHANGED <<workspaces, clients, team_cache, objects, last, settings, tasks>>

RemoteTeamDeleted ==
    \E w \in WorkspaceKeys, k \in TeamKeyPool :
        /\ k \in teams[w]
        /\ teams' = [teams EXCEPT ![w] = @ \ {k}]
        /\ UNCHANGED <<workspaces, clients, team_cache, objects, last, settings, tasks>>

Next ==
    \/ GetClient
    \/ ResolveClientForTeam
    \/ ResolveClientForIssue
    \/ ListAllWorkspacesWithTeams
    \/ CloseAll
    \/ RemoteTeamCreated
    \/ RemoteTeamDeleted

Spec == Init /\ [][Next]_vars

\* Team keys globally unique across the workspaces, and ownership fixed: the
\* remote side neither gains nor loses a team.
InitUnique ==
    /\ Init
    /\ \A w1, w2 \in DOMAIN teams : w1 # w2 => teams[w1] \cap teams[w2] = {}

NextUnique ==
    \/ GetClient
    \/ ResolveClientForTeam
    \/ ResolveClientForIssue
    \/ ListAllWorkspacesWithTeams
    \/ CloseAll

SpecUnique == InitUnique /\ [][NextUnique]_vars

----------------------------------------------------------------------------
(* The registry built from Settings *)

InitSettings ==
    /\ workspaces = <<>>
    /\ clients = <<>>
    /\ team_cache = <<>>
    /\ objects = <<>>
    /\ teams = <<>>
    /\ last = [op |-> "init", kind |-> "none", calls |-> <<>>]
    /\ settings = NoSettings
    /\ tasks = EmptyBag

\* get_workspace_registry(), first call: get_settings() constructs Settings
\* from the environment, and the registry is constructed from its
\* resolved_workspaces.  A failed construction is not cached by lru_cache.
GetWorkspaceRegistry ==
    /\ settings = NoSettings
    /\ \E linear_api_key \in ApiKeyInputs, linear_workspaces \in WorkspacesInputs :
          LET self == Settings(linear_api_key, linear_workspaces) IN
          IF self.kind = "ValidationError"
          THEN /\ last' = [op |-> "get_workspace_registry", kind |-> "ValidationError",
                           calls |-> <<>>]
               /\ UNCHANGED <<workspaces, teams, settings>>
          ELSE /\ settings' = self
               /\ workspaces' = resolved_workspaces(self)
               /\ teams' \in [ {workspaces'[i].name : i \in 1..Len(workspaces')}
                                 -> SUBSET TeamKeyPool ]
               /\ last' = [op |-> "get_workspace_registry", kind |-> "registry",
                           calls |-> <<>>]
    /\ UNCHANGED <<clients, team_cache, objects, tasks>>

NextSettings ==
    \/ GetWorkspaceRegistry
    \/ settings # NoSettings /\ GetClient
    \/ settings # NoSettings /\ ResolveClientForTeam
    \/ settings # NoSettings /\ ListAllWorkspacesWithTeams
    \/ settings # NoSettings /\ CloseAll

SpecSettings == InitSettings /\ [][NextSettings]_vars

----------------------------------------------------------------------------
(* The coroutines, interleaved at their awaits *)

\* Team keys the interleaved resolutions are called with: two different keys,
\* one of them in lower case.
AsyncKeyInputs == { <<"a">>, <<"B">> }

\* A finite set of object ids, in increasing order.
RECURSIVE Sorted(_)
Sorted(S) ==
    IF S = {} THEN <<>>
    ELSE LET m == CHOOSE x \in S : \A y \in S : x <= y
         IN <<m>> \o Sorted(S \ {m})

\* self._clients.values(): the dict keeps insertion order, and a client is
\* inserted when it is constructed, so the order is that of the object ids.
ClientValues(reg) == Sorted({reg.clients[w] : w \in DOMAIN reg.clients})

\* Another coroutine can be started.
Free == BagCardinality(tasks) < MaxTasks

\* A coroutine suspended in `await client.get_team_by_key(...)` on the i-th
\* workspace, and one suspended in `await client.close()` on the i-th client
\* of an iteration begun over `used` clients.
InGetTeamByKey(team_key, i, client) ==
    [pc |-> "get_team_by_key", team_key |-> team_key, i |-> i, used |-> 0,
     client |-> client]

InClose(i, used, client) ==
    [pc |-> "close", team_key |-> <<>>, i |-> i, used |-> used, client |-> client]

\* What a coroutine that has ended leaves in `last`.
Ended(op, kind) == [op |-> op, kind |-> kind, calls |-> <<>>]

\* A coroutine runs from where it was suspended (resumed: the coroutine, or
\* none when it is being called) up to its next await (suspended: where) or
\* to its end (suspended: none; ended is what it returned or raised).
Step(resumed, reg, suspended, ended) ==
    /\ Len(reg.objects) <= MaxClients
    /\ clients' = reg.clients
    /\ objects' = reg.objects
    /\ team_cache' = reg.team_cache
    /\ tasks' = (tasks (-) SetToBag(resumed)) (+) SetToBag(suspended)
    /\ last' = ended
    /\ UNCHANGED <<workspaces, teams, settings>>

\* get_client(workspace_name), called between the coroutines' steps: it has no
\* await, so it runs whole.
GetClientCall ==
    \E workspace_name \in WorkspaceKeys :
        Step({}, get_client(Reg, workspace_name).reg, {}, last)

\* The loop of resolve_client_for_team at its i-th workspace: get_client, then
\* suspended in `await client.get_team_by_key(...)`; past the last workspace,
\* TeamNotFoundError.
ProbeFrom(resumed, i, reg, team_key) ==
    IF i > Len(workspaces)
    THEN Step(resumed, reg, {},
              Ended("resolve_client_for_team", TeamNotFound(team_key, reg, <<>>).kind))
    ELSE LET g == get_client(reg, workspaces[i].name)
         IN Step(resumed, g.reg, {InGetTeamByKey(team_key, i, g.value)}, last)

\* resolve_client_for_team(team_key) is called and runs to its first await.
ResolveCall ==
    /\ Free
    /\ \E team_key \in AsyncKeyInputs :
          LET team_key_upper == Upper(team_key) IN
          IF TeamCacheHas(team_cache, team_key, team_key_upper)
          THEN LET g == get_client(Reg, team_cache[team_key_upper])
               IN Step({}, g.reg, {}, Ended("resolve_client_for_team", g.kind))
          ELSE ProbeFrom({}, 1, Reg, team_key)

\* get_team_by_key answers (or raises, for err) and the coroutine goes on to
\* its return or to the next workspace's lookup.
ResolveResume ==
    \E self \in BagToSet(tasks) :
        /\ self.pc = "get_team_by_key"
        /\ \E err \in SUBSET {workspaces[self.i].name} :
              LET ws_name == workspaces[self.i].name
                  team_key_upper == Upper(self.team_key)
                  team == get_team_by_key(ws_name, team_key_upper, err)
              IN IF team = "error" /\ ~Catches(team)
                 THEN Step({self}, Reg, {},
                           Ended("resolve_client_for_team", "LinearClientError"))
                 ELSE IF team # "error" /\ Found(team)
                 THEN Step({self},
                           [Reg EXCEPT
                              !.team_cache = TeamCachePut(@, team_key_upper, ws_name)],
                           {}, Ended("resolve_client_for_team", "client"))
                 ELSE ProbeFrom({self}, self.i + 1, Reg, self.team_key)

\* next() on the iterator of self._clients.values(): "dictionary changed size
\* during iteration" when the dict's size is not what it was when the
\* iteration began.
DictChangedSize(used, values) == Len(values) # used

\* close_all() is called: the iteration begins and, if the client set is not
\* empty, close() is invoked on the first client and awaited.
CloseCall ==
    /\ Free
    /\ LET values == ClientValues(Reg) IN
       IF values = <<>>
       THEN Step({}, [Reg EXCEPT !.clients = <<>>], {}, Ended("close_all", "none"))
       ELSE Step({}, [Reg EXCEPT !.objects[values[1]].closed = @ + 1],
                 {InClose(1, Len(values), values[1])}, last)

\* close() returns: the iteration goes on to the next client, raises, or ends
\* and self._clients.clear() runs.
CloseResume ==
    \E self \in BagToSet(tasks) :
        /\ self.pc = "close"
        /\ LET values == ClientValues(Reg)
           IN IF DictChangedSize(self.used, values)
              THEN Step({self}, Reg, {}, Ended("close_all", "RuntimeError"))
              ELSE IF self.i < Len(values)
              THEN Step({self},
                        [Reg EXCEPT !.objects[values[self.i + 1]].closed = @ + 1],
                        {InClose(self.i + 1, self.used, values[self.i + 1])}, last)
              ELSE Step({self}, [Reg EXCEPT !.clients = <<>>], {},
                        Ended("close_all", "none"))

NextAsync ==
    \/ GetClientCall
    \/ ResolveCall
    \/ ResolveResume
    \/ CloseCall
    \/ CloseResume

SpecAsync == Init /\ [][NextAsync]_vars

----------------------------------------------------------------------------
(* What the claims speak of *)

\* The remote failures a call can meet: any set of workspaces may raise.
ErrSets == SUBSET WorkspaceKeys

\* r returned the client the registry holds for workspace w, built with w's key.
ReturnsClientOf(r, w) ==
    /\ r.kind = "client"
    /\ w \in DOMAIN r.reg.clients
    /\ r.reg.clients[w] = r.value
    /\ r.reg.objects[r.value].api_key = ApiKeyOf(w)

\* The position of the first workspace, in configuration order, whose lookup of
\* key returns a team (no element when none does).
FirstTeam(key, err) ==
    {i \in 1..Len(workspaces) :
        /\ get_team_by_key(workspaces[i].name, key, err) = "team"
        /\ \A j \in 1..(i - 1) :
              get_team_by_key(workspaces[j].name, key, err) # "team"}

\* The workspaces a resolution called get_team_by_key on, in call order.
Probed(r) == [i \in 1..Len(r.calls) |-> r.calls[i].ws]

UpperCased(s) == \A i \in 1..Len(s) : s[i] \notin LowerLetters

----------------------------------------------------------------------------
(* C1: on a cache miss, resolve_client_for_team probes the workspaces in     *)
(* configuration order, returns the client of the first workspace whose      *)
(* get_team_by_key returns a team, records cache[UPPER(key)] = that          *)
(* workspace, and calls get_team_by_key on no later workspace.               *)
C1_FirstMatchWins ==
    \A team_key \in KeyInputs, err \in ErrSets :
        LET key == Upper(team_key)
            r == resolve_client_for_team(Reg, team_key, err)
        IN (key \notin DOMAIN team_cache) =>
             \A i \in FirstTeam(key, err) :
                /\ ReturnsClientOf(r, workspaces[i].name)
                /\ r.reg.team_cache = Put(team_cache, key, workspaces[i].name)
                /\ Probed(r) = SubSeq(workspace_names, 1, i)

\* A resolution that missed the first workspace and found the team in the second.
C1_Witness ==
    /\ last.op = "resolve_client_for_team"
    /\ last.kind = "client"
    /\ last.calls = <<"none", "team">>
    /\ \E key \in DOMAIN team_cache : team_cache[key] = workspaces[2].name

(* C2: when the upper-cased key is in the team cache, the call returns the   *)
(* client of the cached workspace and calls get_team_by_key on no            *)
(* workspace, whatever the remote side would answer.                         *)
C2_CacheHitNoRemoteCall ==
    \A team_key \in KeyInputs, err \in ErrSets :
        LET key == Upper(team_key)
            r == resolve_client_for_team(Reg, team_key, err)
        IN (key \in DOMAIN team_cache) =>
             /\ ReturnsClientOf(r, team_cache[key])
             /\ r.calls = <<>>
             /\ r.reg.team_cache = team_cache

\* A cache hit on a key whose cached workspace no longer holds the team.
C2_Witness ==
    /\ last.op = "resolve_client_for_team"
    /\ last.kind = "client"
    /\ last.calls = <<>>
    /\ \E key \in DOMAIN team_cache : key \notin teams[team_cache[key]]

(* C3: a remote-client error raised by one workspace's get_team_by_key is    *)
(* swallowed and probing goes on: if a later workspace returns the team, the *)
(* call returns that workspace's client and the error never reaches the      *)
(* caller.                                                                   *)
C3_ErrorSwallowed ==
    \A team_key \in KeyInputs, err \in ErrSets :
        LET key == Upper(team_key)
            r == resolve_client_for_team(Reg, team_key, err)
        IN /\ r.kind # "LinearClientError"
           /\ (key \notin DOMAIN team_cache) =>
                \A i \in FirstTeam(key, err) :
                    (\E j \in 1..(i - 1) : workspaces[j].name \in err) =>
                        /\ ReturnsClientOf(r, workspaces[i].name)
                        /\ \A j \in 1..(i - 1) :
                              r.calls[j].answer \in {"none", "error"}
                        /\ \E j \in 1..(i - 1) : r.calls[j].answer = "error"

\* A resolution whose first lookup raised and whose second returned the team.
C3_Witness ==
    /\ last.op = "resolve_client_for_team"
    /\ last.kind = "client"
    /\ last.calls = <<"error", "team">>

(* C4: the call fails with team-not-found only when the upper-cased key is   *)
(* not cached and get_team_by_key was attempted on every configured          *)
(* workspace with none returning a team; the message names every configured  *)
(* workspace as searched.                                                    *)
C4_NotFoundOnlyAfterAll ==
    \A team_key \in KeyInputs, err \in ErrSets :
        LET key == Upper(team_key)
            r == resolve_client_for_team(Reg, team_key, err)
        IN (r.kind = "TeamNotFoundError") =>
             /\ key \notin DOMAIN team_cache
             /\ Probed(r) = workspace_names
             /\ \A i \in 1..Len(r.calls) :
                   /\ r.calls[i].answer \in {"none", "error"}
                   /\ r.calls[i].answer =
                        get_team_by_key(r.calls[i].ws, key, err)
             /\ r.message.searched = workspace_names
             /\ Len(r.message.searched) = Len(workspaces)
             /\ r.message.team = team_key

\* A failed resolution over two workspaces, one answering null, one raising.
C4_Witness ==
    /\ last.op = "resolve_client_for_team"
    /\ last.kind = "TeamNotFoundError"
    /\ Len(last.calls) = 2
    /\ \E i, j \in 1..2 : last.calls[i] = "none" /\ last.calls[j] = "error"

(* C5: with team keys globally unique across the workspaces and ownership    *)
(* fixed, after any sequence of registry calls every successful              *)
(* resolve_client_for_team(k) returns the client of the workspace that owns  *)
(* k, never another workspace's.                                             *)
C5_ResolvesToOwner ==
    \A team_key \in KeyInputs, err \in ErrSets :
        LET key == Upper(team_key)
            r == resolve_client_for_team(Reg, team_key, err)
        IN (r.kind = "client") =>
             /\ \E w \in WorkspaceKeys : key \in teams[w] /\ ReturnsClientOf(r, w)
             /\ \A w \in WorkspaceKeys : ReturnsClientOf(r, w) => key \in teams[w]

\* Both team keys cached, to different workspaces, and a resolution answered
\* from the cache.
C5_Witness ==
    /\ last.op = "resolve_client_for_team"
    /\ last.kind = "client"
    /\ last.calls = <<>>
    /\ \E k1, k2 \in DOMAIN team_cache : team_cache[k1] # team_cache[k2]

\* Two resolutions end alike: the same kind of outcome, the same message, and
\* a client of the same workspace.
SameOutcome(r1, r2) ==
    /\ r1.kind = r2.kind
    /\ r1.message = r2.message
    /\ \A w \in WorkspaceKeys : ReturnsClientOf(r1, w) <=> ReturnsClientOf(r2, w)

WithEmptyCache(reg) == [reg EXCEPT !.team_cache = <<>>]

\* The cache entry of key, if any, names the workspace probing would find: the
\* first in configuration order whose lookup returns the team.
CacheAgreesWithProbe(key, err) ==
    (key \in DOMAIN team_cache) =>
        \E i \in FirstTeam(key, err) : workspaces[i].name = team_cache[key]

(* C6, as stated: for every team key and every reachable registry state,     *)
(* resolve_client_for_team yields the same outcome as it would from the same *)
(* remote state with an empty cache.                                         *)
C6_CacheNeverChangesOutcome ==
    \A team_key \in KeyInputs, err \in ErrSets :
        SameOutcome(resolve_client_for_team(Reg, team_key, err),
                    resolve_client_for_team(WithEmptyCache(Reg), team_key, err))

(* C6, amended: the outcome is the same as from an empty cache whenever the  *)
(* key is not cached or its cached workspace is the first in configuration   *)
(* order whose lookup returns the team; then only the number of remote       *)
(* lookups differs, and the empty cache is refilled with the same entry.     *)
C6_CacheAgreeingWithProbeChangesNothing ==
    \A team_key \in KeyInputs, err \in ErrSets :
        LET key == Upper(team_key)
            cached == resolve_client_for_team(Reg, team_key, err)
            probed == resolve_client_for_team(WithEmptyCache(Reg), team_key, err)
        IN CacheAgreesWithProbe(key, err) =>
             /\ SameOutcome(cached, probed)
             /\ Len(cached.calls) <= Len(probed.calls)
             /\ (key \in DOMAIN team_cache) =>
                   /\ cached.calls = <<>>
                   /\ probed.calls # <<>>
                   /\ probed.reg.team_cache = [k \in {key} |-> team_cache[key]]

\* A resolution answered from the cache for a key that the second workspace
\* holds and the first does not.
C6_Witness ==
    /\ last.op = "resolve_client_for_team"
    /\ last.kind = "client"
    /\ last.calls = <<>>
    /\ \E key \in DOMAIN team_cache :
          /\ team_cache[key] = workspaces[Len(workspaces)].name
          /\ Len(workspaces) = 2
          /\ FirstTeam(key, {}) = {2}

(* C7: in every reachable state every team-cache entry maps an upper-cased   *)
(* team key to a configured workspace name, so the cache-hit path of         *)
(* resolve_client_for_team never fails with the unknown-workspace error.     *)
C7_CacheNamesConfiguredWorkspaces ==
    /\ \A key \in DOMAIN team_cache :
          /\ UpperCased(key)
          /\ team_cache[key] \in WorkspaceKeys
    /\ \A team_key \in KeyInputs, err \in ErrSets :
          resolve_client_for_team(Reg, team_key, err).kind # "KeyError"

\* A bulk listing has filled the cache with both team keys.
C7_Witness ==
    /\ last.op = "list_all_workspaces_with_teams"
    /\ Cardinality(DOMAIN team_cache) = 2

(* C8: resolve_client_for_team is case-insensitive: two keys that differ     *)
(* only in letter case, from the same registry and remote state, end alike   *)
(* (same client or both team-not-found), the key passed to get_team_by_key   *)
(* and the key written to the cache are upper-cased, and an entry written    *)
(* for one variant is hit by every other.                                    *)
SameLetters(k1, k2) ==
    /\ Len(k1) = Len(k2)
    /\ \A i \in 1..Len(k1) :
          \/ k1[i] = k2[i]
          \/ {k1[i], k2[i]} \in {{"a", "A"}, {"b", "B"}}

C8_CaseInsensitive ==
    \A k1 \in KeyInputs, err \in ErrSets :
        LET r1 == resolve_client_for_team(Reg, k1, err) IN
        /\ \A i \in 1..Len(r1.calls) :
              UpperCased(r1.calls[i].key) /\ SameLetters(r1.calls[i].key, k1)
        /\ \A key \in DOMAIN r1.reg.team_cache \ DOMAIN team_cache :
              UpperCased(key) /\ SameLetters(key, k1)
        /\ \A k2 \in KeyInputs :
              SameLetters(k1, k2) =>
                LET r2 == resolve_client_for_team(Reg, k2, err) IN
                /\ r1.kind = r2.kind
                /\ r1.value = r2.value
                /\ r1.reg = r2.reg
                /\ r1.calls = r2.calls
                /\ (r1.kind = "client") =>
                      resolve_client_for_team(r1.reg, k2, err).calls = <<>>

\* A probing resolution has just written an entry that a lower-case and an
\* upper-case spelling of the key both hit.
C8_Witness ==
    /\ last.op = "resolve_client_for_team"
    /\ last.kind = "client"
    /\ last.calls # <<>>
    /\ \E k1, k2 \in KeyInputs :
          /\ k1 # k2
          /\ SameLetters(k1, k2)
          /\ ~UpperCased(k1)
          /\ resolve_client_for_team(Reg, k1, {}).calls = <<>>
          /\ resolve_client_for_team(Reg, k2, {}).calls = <<>>
          /\ resolve_client_for_team(Reg, k1, {}).kind = "client"

\* <letters>-<digits>: one or more ASCII letters, a single '-', one or more
\* digits, and nothing else; n is the number of letters.
LettersDashDigits(identifier, n) ==
    /\ n >= 1
    /\ Len(identifier) >= n + 2
    /\ \A i \in 1..n : identifier[i] \in LowerLetters \cup UpperLetters
    /\ identifier[n + 1] = "-"
    /\ \A i \in (n + 2)..Len(identifier) : identifier[i] \in Digits

WellFormedIdents ==
    {identifier \in IdentInputs :
        \E n \in 1..Len(identifier) : LettersDashDigits(identifier, n)}

MalformedIdents == IdentInputs \ WellFormedIdents

(* C9: for every identifier of the form <letters>-<digits>,                  *)
(* resolve_client_for_issue(identifier) resolves as                          *)
(* resolve_client_for_team(<letters>) does: same client or same              *)
(* team-not-found failure, same remote lookups, same resulting cache.        *)
C9_IssueResolvesAsTeam ==
    \A identifier \in WellFormedIdents, err \in ErrSets :
        \A n \in 1..Len(identifier) :
            LettersDashDigits(identifier, n) =>
                resolve_client_for_issue(Reg, identifier, err)
                    = resolve_client_for_team(Reg, SubSeq(identifier, 1, n), err)

\* A resolution by issue identifier that probed and found the team.
C9_Witness ==
    /\ last.op = "resolve_client_for_issue"
    /\ last.kind = "client"
    /\ last.calls # <<>>

(* C10: for every identifier that is not exactly one or more ASCII letters,  *)
(* a single '-', and one or more digits (no leading or trailing whitespace   *)
(* of any kind), resolve_client_for_issue fails with the invalid-format      *)
(* error and attempts no resolution: no get_team_by_key call, no client      *)
(* creation, no change to the team cache.                                    *)
\* This step is a call resolve_client_for_issue(identifier) during which the
\* workspaces of err raise.
IssueStep(identifier, err) ==
    LET r == resolve_client_for_issue(Reg, identifier, err) IN
    /\ last'.op = "resolve_client_for_issue"
    /\ last'.kind = r.kind
    /\ last'.calls = [i \in 1..Len(r.calls) |-> r.calls[i].answer]
    /\ clients' = r.reg.clients
    /\ objects' = r.reg.objects
    /\ team_cache' = r.reg.team_cache

C10_MalformedRejected ==
    [][\A identifier \in MalformedIdents, err \in ErrSets :
          IssueStep(identifier, err) =>
              /\ last'.kind = "ValueError"
              /\ last'.calls = <<>>
              /\ UNCHANGED <<clients, objects, team_cache>>]_vars

----------------------------------------------------------------------------
\* The workspaces that hold a client are told apart by it, and each client was
\* built with the api key of the workspace that holds it.
ClientsOwned(reg) ==
    \A w1 \in DOMAIN reg.clients :
        /\ reg.clients[w1] \in 1..Len(reg.objects)
        /\ reg.objects[reg.clients[w1]].api_key = ApiKeyOf(w1)
        /\ \A w2 \in DOMAIN reg.clients : w1 # w2 => reg.clients[w1] # reg.clients[w2]

(* C11: for every configured workspace, a second get_client with the same    *)
(* name returns the instance the first returned and constructs nothing; the  *)
(* clients of two different workspaces are distinct instances, each built    *)
(* with its own workspace's api key.                                         *)
C11_SameClientTwice ==
    /\ ClientsOwned(Reg)
    /\ \A w1 \in WorkspaceKeys :
          LET g1 == get_client(Reg, w1)
              g2 == get_client(g1.reg, w1)
          IN /\ g1.kind = "client"
             /\ g2.kind = "client"
             /\ g2.value = g1.value
             /\ g2.reg = g1.reg
             /\ Len(g2.reg.objects) = Len(g1.reg.objects)
             /\ ClientsOwned(g1.reg)
             /\ \A w2 \in WorkspaceKeys \ {w1} :
                   LET h == get_client(g1.reg, w2)
                   IN /\ h.value # g1.value
                      /\ h.reg.clients[w1] = g1.value
                      /\ h.reg.objects[h.value].api_key = ApiKeyOf(w2)
                      /\ h.reg.objects[g1.value].api_key = ApiKeyOf(w1)
                      /\ ApiKeyOf(w1) # ApiKeyOf(w2)

\* get_client has returned, and both workspaces hold a client of their own.
C11_Witness ==
    /\ last.op = "get_client"
    /\ last.kind = "client"
    /\ Cardinality(DOMAIN clients) = 2
    /\ Len(objects) = 2

\* Names that are not configured: never configured, the other configuration's,
\* the empty name, and a configured name in another letter case.
UnconfiguredNames ==
    {"unknown", "", "IOS", "ios", "backend", "default"} \ WorkspaceKeys

(* C12: for every name outside the configured set, get_client fails with the *)
(* unknown-workspace error, whose message enumerates exactly the configured  *)
(* names, and the call creates no client and changes neither the client set  *)
(* nor the team cache.                                                       *)
C12_UnknownWorkspace ==
    \A workspace_name \in UnconfiguredNames :
        LET g == get_client(Reg, workspace_name)
        IN /\ g.kind = "KeyError"
           /\ g.message.workspace = workspace_name
           /\ Len(g.message.available) = Len(workspaces)
           /\ \A i \in 1..Len(workspaces) :
                 g.message.available[i] = workspaces[i].name
           /\ g.reg.objects = objects
           /\ g.reg.clients = clients
           /\ g.reg.team_cache = team_cache

\* get_client has failed on a registry that holds a client and a cache entry.
C12_Witness ==
    /\ last.op = "get_client"
    /\ last.kind = "KeyError"
    /\ clients # <<>>
    /\ team_cache # <<>>
    /\ Cardinality(DOMAIN clients) < Len(workspaces)

----------------------------------------------------------------------------
(* C13: list_all_workspaces_with_teams returns one outcome per configured    *)
(* workspace, in configuration order; a workspace whose list_teams raises    *)
(* the remote-client error is recorded with the error and an empty team      *)
(* list, every later workspace is still queried, and the call returns.       *)
C13_ListingSurvivesFailures ==
    \A err \in ErrSets :
        LET r == list_all_workspaces_with_teams(Reg, err)
        IN /\ r.kind = "result"
           /\ Len(r.value) = Len(workspaces)
           /\ DOMAIN r.reg.clients = WorkspaceKeys
           /\ \A i \in 1..Len(workspaces) :
                 LET w == workspaces[i].name
                 IN /\ r.value[i].workspace = w
                    /\ r.value[i].error <=> (w \in err)
                    /\ (w \in err) => r.value[i].teams = {}
                    /\ (w \notin err) =>
                          /\ {t.key : t \in r.value[i].teams} = teams[w]
                          /\ \A t \in r.value[i].teams : t = Team(w, t.key)

\* A listing whose first workspace raised and whose second answered.
C13_Witness ==
    /\ last.op = "list_all_workspaces_with_teams"
    /\ last.kind = "result"
    /\ last.calls = <<"error", "ok">>
    /\ teams[workspaces[2].name] # {}

\* The outcome of the i-th workspace lists a team of upper-cased key k.
Listed(r, i, k) ==
    /\ ~r.value[i].error
    /\ \E t \in r.value[i].teams : UpperCased(k) /\ SameLetters(k, t.key)

(* C14, as stated: after list_all_workspaces_with_teams, for every team a    *)
(* successfully listed workspace returned, the cache maps the team's         *)
(* upper-cased key to that workspace; workspaces whose listing failed        *)
(* contribute no entry.                                                      *)
C14_ListingCachesEveryTeam ==
    \A err \in ErrSets :
        LET r == list_all_workspaces_with_teams(Reg, err)
        IN /\ \A i \in 1..Len(r.value), k \in TeamKeyPool :
                 Listed(r, i, k) =>
                     /\ k \in DOMAIN r.reg.team_cache
                     /\ r.reg.team_cache[k] = r.value[i].workspace
           /\ \A k \in DOMAIN r.reg.team_cache :
                 \/ k \in DOMAIN team_cache /\ r.reg.team_cache[k] = team_cache[k]
                 \/ \E i \in 1..Len(r.value) :
                       Listed(r, i, k) /\ r.reg.team_cache[k] = r.value[i].workspace

(* C14, amended: after list_all_workspaces_with_teams, the cache maps the    *)
(* upper-cased key of every team returned by a successfully listed workspace *)
(* to the last such workspace in configuration order (to that workspace      *)
(* itself when no later one returned the same key); keys no successful       *)
(* listing returned keep their entry or their absence.                       *)
C14_ListingCachesLastLister ==
    \A err \in ErrSets :
        LET r == list_all_workspaces_with_teams(Reg, err)
        IN /\ \A i \in 1..Len(r.value), k \in TeamKeyPool :
                 (/\ Listed(r, i, k)
                  /\ \A j \in (i + 1)..Len(r.value) : ~Listed(r, j, k)) =>
                     /\ k \in DOMAIN r.reg.team_cache
                     /\ r.reg.team_cache[k] = r.value[i].workspace
           /\ \A k \in DOMAIN r.reg.team_cache :
                 (\A i \in 1..Len(r.value) : ~Listed(r, i, k)) =>
                     k \in DOMAIN team_cache /\ r.reg.team_cache[k] = team_cache[k]
           /\ \A k \in DOMAIN team_cache : k \in DOMAIN r.reg.team_cache

\* A listing in which both workspaces returned the same key: the entry names
\* the second.
C14_Witness ==
    /\ last.op = "list_all_workspaces_with_teams"
    /\ last.calls = <<"ok", "ok">>
    /\ \E k \in teams[workspaces[1].name] \cap teams[workspaces[2].name] :
          team_cache[k] = workspaces[2].name

----------------------------------------------------------------------------
\* The object ids of the clients the registry holds.
Held(reg) == {reg.clients[w] : w \in DOMAIN reg.clients}

(* C15: close_all invokes close exactly once on every client held in the     *)
(* client set and on no other, and when it returns the client set is empty;  *)
(* so, calls following one another, no client is ever closed twice and every *)
(* client that left the client set was closed.                               *)
C15_ClosesEachHeldClientOnce ==
    LET reg == close_all(Reg)
    IN /\ reg.clients = <<>>
       /\ Len(reg.objects) = Len(objects)
       /\ \A id \in 1..Len(objects) :
             /\ reg.objects[id].api_key = objects[id].api_key
             /\ reg.objects[id].closed =
                   objects[id].closed + (IF id \in Held(Reg) THEN 1 ELSE 0)
             /\ objects[id].closed = (IF id \in Held(Reg) THEN 0 ELSE 1)
             /\ reg.objects[id].closed = 1

\* close_all has closed two clients and emptied the client set.
C15_Witness ==
    /\ last.op = "close_all"
    /\ clients = <<>>
    /\ Len(objects) = 2
    /\ Len(workspaces) = 2
    /\ \A id \in 1..Len(objects) : objects[id].closed = 1
    /\ objects[1].api_key # objects[2].api_key

(* C17, as stated: once an upper-cased team key has a cache entry, no later  *)
(* operation removes the entry or changes the workspace it maps to.          *)
C17_EntriesNeverChange ==
    [][\A k \in DOMAIN team_cache :
          /\ k \in DOMAIN team_cache'
          /\ team_cache'[k] = team_cache[k]]_vars

(* C17, amended: no operation removes a cache entry, and only                *)
(* list_all_workspaces_with_teams changes the workspace an entry maps to: it *)
(* re-points the entry to a workspace whose successful listing returned the  *)
(* key.  A stale entry no listing returns is kept as it is.                  *)
C17_EntriesOnlyRepointedByListing ==
    [][\A k \in DOMAIN team_cache :
          /\ k \in DOMAIN team_cache'
          /\ (team_cache'[k] # team_cache[k]) =>
                /\ last'.op = "list_all_workspaces_with_teams"
                /\ team_cache'[k] \in WorkspaceKeys
                /\ k \in teams[team_cache'[k]]
                /\ \E i \in 1..Len(workspaces) :
                      /\ workspaces[i].name = team_cache'[k]
                      /\ last'.calls[i] = "ok"]_vars

\* A listing of every workspace has left alone an entry for a key that no
\* workspace holds any more.
C17_Witness ==
    /\ last.op = "list_all_workspaces_with_teams"
    /\ \A i \in 1..Len(last.calls) : last.calls[i] = "ok"
    /\ \E k \in DOMAIN team_cache : \A w \in WorkspaceKeys : k \notin teams[w]

(* C18: close_all changes the client set alone: the team cache is as it was, *)
(* with no client held it closes nothing and changes nothing, and the next   *)
(* get_client of any configured workspace constructs a fresh, open client    *)
(* with that workspace's api key.                                            *)
C18_CloseAllLeavesRegistryUsable ==
    LET reg == close_all(Reg)
    IN /\ reg.team_cache = team_cache
       /\ (clients = <<>>) => reg = Reg
       /\ \A w \in WorkspaceKeys :
             LET g == get_client(reg, w)
             IN /\ g.kind = "client"
                /\ g.value \notin 1..Len(objects)
                /\ Len(g.reg.objects) = Len(objects) + 1
                /\ g.reg.objects[g.value].closed = 0
                /\ g.reg.objects[g.value].api_key = ApiKeyOf(w)
                /\ g.reg.clients = [x \in {w} |-> g.value]
                /\ g.reg.team_cache = team_cache
                /\ \A id \in 1..Len(objects) : g.reg.objects[id] = reg.objects[id]

\* After a close_all, get_client has constructed a second client for a
\* registry whose cache kept its entry.
C18_Witness ==
    /\ last.op = "get_client"
    /\ last.kind = "client"
    /\ Len(objects) = 2
    /\ objects[1].closed = 1
    /\ objects[2].closed = 0
    /\ objects[1].api_key = objects[2].api_key
    /\ Held(Reg) = {2}
    /\ team_cache # <<>>

----------------------------------------------------------------------------
\* A field is set: it has a value, and the value is not empty.
IsSet(field, empty) == field # None /\ empty \notin field

(* C16: every successfully constructed Settings has a non-empty              *)
(* resolved_workspaces: linear_workspaces itself when that is set, whether   *)
(* or not linear_api_key is set too, and otherwise exactly one workspace     *)
(* "default" with the non-empty linear_api_key; with neither set the         *)
(* construction fails with a validation error, so the registry is never      *)
(* built from an empty workspace set.                                        *)
C16_ResolvedWorkspaces ==
    /\ \A linear_api_key \in ApiKeyInputs, linear_workspaces \in WorkspacesInputs :
          LET self == Settings(linear_api_key, linear_workspaces)
              key_set == IsSet(linear_api_key, "")
              workspaces_set == IsSet(linear_workspaces, <<>>)
          IN /\ (self.kind = "ValidationError") <=> (~key_set /\ ~workspaces_set)
             /\ (self.kind # "ValidationError") =>
                   LET resolved == resolved_workspaces(self)
                   IN /\ Len(resolved) >= 1
                      /\ workspaces_set => linear_workspaces = {resolved}
                      /\ ~workspaces_set =>
                            /\ Len(resolved) = 1
                            /\ resolved[1].name = "default"
                            /\ linear_api_key = {resolved[1].api_key}
                            /\ resolved[1].api_key # ""
    /\ (settings = NoSettings) =>
          workspaces = <<>> /\ clients = <<>> /\ objects = <<>>
    /\ (settings # NoSettings) =>
          /\ Len(workspaces) >= 1
          /\ workspaces = resolved_workspaces(settings)

\* A registry built from Settings with both fields set, and used: it has the
\* workspaces of linear_workspaces.
C16_Witness ==
    /\ settings # NoSettings
    /\ settings.linear_api_key = {"lin_api_single"}
    /\ settings.linear_workspaces = {workspaces}
    /\ Len(workspaces) = 2
    /\ Cardinality(DOMAIN clients) = 2

----------------------------------------------------------------------------
\* The coroutine self was resumed in this step.
Resumed(self) == CopiesIn(self, tasks') < CopiesIn(self, tasks)

\* The upper-cased spelling of team_key.
IsUpperOf(k, team_key) == UpperCased(k) /\ SameLetters(k, team_key)

(* C19: with resolutions interleaved at their lookups (and with close_all    *)
(* and get_client between them), a resolution that resumes touches no cache  *)
(* entry but that of its own upper-cased key, removes none, and when it      *)
(* returns a client has cached its key to the workspace that answered; no    *)
(* step replaces the client a workspace holds, and a client is constructed   *)
(* only for a workspace that held none.                                      *)
C19_ResolutionsKeepEachOthersEntries ==
    [][/\ \A self \in BagToSet(tasks) :
             (self.pc = "get_team_by_key" /\ Resumed(self)) =>
                 /\ \A k \in DOMAIN team_cache :
                       /\ k \in DOMAIN team_cache'
                       /\ ~IsUpperOf(k, self.team_key) => team_cache'[k] = team_cache[k]
                 /\ \A k \in DOMAIN team_cache' \ DOMAIN team_cache :
                       IsUpperOf(k, self.team_key)
                 /\ (/\ BagCardinality(tasks') < BagCardinality(tasks)
                     /\ last'.kind = "client") =>
                       \E k \in DOMAIN team_cache' :
                           /\ IsUpperOf(k, self.team_key)
                           /\ team_cache'[k] = workspaces[self.i].name
                           /\ k \in teams[workspaces[self.i].name]
       /\ \A w \in DOMAIN clients \cap DOMAIN clients' : clients'[w] = clients[w]
       /\ Len(objects') - Len(objects) = Cardinality(DOMAIN clients' \ DOMAIN clients)
       /\ DOMAIN clients' \subseteq WorkspaceKeys
       /\ \A w1, w2 \in DOMAIN clients' : w1 # w2 => clients'[w1] # clients'[w2]]_vars

\* Two resolutions of different keys are suspended in their lookups, one on
\* the first workspace and one on the second, after a third has cached a key.
C19_Witness ==
    /\ team_cache # <<>>
    /\ \E s1, s2 \in BagToSet(tasks) :
          /\ s1.pc = "get_team_by_key"
          /\ s2.pc = "get_team_by_key"
          /\ ~SameLetters(s1.team_key, s2.team_key)
          /\ s1.i = 1
          /\ s2.i = 2

(* C20: when close_all is interleaved with an operation that constructs a    *)
(* client lazily (the client set has grown while close_all, the only         *)
(* close_all in flight, was suspended in a client's close), close_all goes   *)
(* on without error, and no client leaves the client set without close       *)
(* having been invoked on it exactly once.                                   *)
C20_CloseAllSurvivesInterleaving ==
    [][\A self \in BagToSet(tasks) :
          (/\ self.pc = "close"
           /\ Resumed(self)
           /\ \A other \in BagToSet(tasks) : other.pc = "close" => other = self
           /\ CopiesIn(self, tasks) = 1
           /\ Cardinality(DOMAIN clients) > self.used) =>
              /\ last'.kind # "RuntimeError"
              /\ \A id \in 1..Len(objects') :
                    (\A w \in DOMAIN clients' : clients'[w] # id) =>
                        objects'[id].closed = 1]_vars

----------------------------------------------------------------------------
(* C21: a resolve_client_for_team call that ends in team-not-found leaves    *)
(* the team cache as it was, so the next call for the same key, whatever     *)
(* workspaces fail this time, probes again from the first workspace, and     *)
(* returns the client of the first workspace that now returns the team (for  *)
(* instance the owner, whose lookup raised during the first call).           *)
C21_NotFoundIsNotCached ==
    \A team_key \in KeyInputs, err \in ErrSets :
        LET key == Upper(team_key)
            r == resolve_client_for_team(Reg, team_key, err)
        IN (r.kind = "TeamNotFoundError") =>
             /\ r.reg.team_cache = team_cache
             /\ key \notin DOMAIN r.reg.team_cache
             /\ \A later \in ErrSets :
                   LET again == resolve_client_for_team(r.reg, team_key, later)
                   IN /\ again.calls # <<>>
                      /\ again.calls[1].ws = workspaces[1].name
                      /\ \A i \in 1..Len(again.calls) :
                            again.calls[i].ws = workspaces[i].name
                      /\ \A i \in FirstTeam(key, later) :
                            /\ ReturnsClientOf(again, workspaces[i].name)
                            /\ Len(again.calls) = i
                            /\ again.reg.team_cache =
                                  Put(team_cache, key, workspaces[i].name)
                      /\ (FirstTeam(key, later) = {}) =>
                            /\ again.kind = "TeamNotFoundError"
                            /\ again.reg.team_cache = team_cache

\* A resolution has ended in team-not-found although a workspace holds the
\* key: whichever uncached key it was for, the lookup of a workspace that
\* holds it raised.
C21_Witness ==
    /\ last.op = "resolve_client_for_team"
    /\ last.kind = "TeamNotFoundError"
    /\ \A k \in TeamKeyPool :
          \/ k \in DOMAIN team_cache
          \/ \E i \in 1..Len(last.calls) :
                last.calls[i] = "error" /\ k \in teams[workspaces[i].name]

====
